---- MODULE Spec2Model ----
(***************************************************************************)
(* Model of the sbrk-based allocator of malloc_in_c_implementation.c:      *)
(* the static catalog head free_list, the block headers written into the   *)
(* heap, the program break moved by sbrk, and my_malloc as one atomic      *)
(* operation (the program is single threaded).  A release operation, which *)
(* the source does not have, is modelled from the specification and is     *)
(* part of SpecR only.                                                     *)
(***************************************************************************)
EXTENDS Integers, Sequences, FiniteSets, TLC

VARIABLES mem,        \* block headers in the heap: address -> [size, next, is_free]
          free_list,  \* static Block *free_list
          brk,        \* the program break
          calls,      \* number of operations performed so far
          last,       \* the last operation: its argument, path and return value
          returned,   \* sequence of [p, size]: every successful my_malloc, in order
          seen        \* set of <<outcome, return value>> pairs of my_malloc so far

vars == <<mem, free_list, brk, calls, last, returned, seen>>

----------------------------------------------------------------------------
(* Bounds and program constants *)

MaxCalls == 4

InitialBreak == 4096

sizeofBlock == 24

NULL == 0

\* size_t arithmetic wraps around.  The width is scaled down from 64 bits to
\* 20 (the model checker's integers are 32 bits wide); every address and size
\* of the model is far below both moduli, and a negative int still converts
\* to a value larger than any of them.
SizeTModulus == 2^20

\* the requested sizes my_malloc is called with
Sizes == {-1, 0, 10, 32, 64}

----------------------------------------------------------------------------
(* Helpers for C arithmetic and heap memory *)

\* conversion of an int to size_t
ToSizeT(x) == x % SizeTModulus

\* writing the header h at address a
Store(m, a, h) == [x \in (DOMAIN m) \cup {a} |-> IF x = a THEN h ELSE m[x]]

\* mutant of sbrk: the break is not advanced
sbrk_no_advance(b, incr, granted) ==
    IF granted THEN [ptr |-> b, brk |-> b] ELSE [ptr |-> -1, brk |-> b]

\* sbrk(incr): on success returns the old break and raises the break by incr;
\* on failure returns (void *)-1 and leaves the break alone.  Whether the
\* operating system grants the request is its choice.
sbrk(b, incr, granted) ==
    IF granted THEN [ptr |-> b, brk |-> b + incr] ELSE [ptr |-> -1, brk |-> b]

\* mutant of request_memory: sbrk's failure value is not recognised
request_memory_unchecked(b, size, granted) == sbrk(b, size, granted)

\* request_memory: maps sbrk's -1 to NULL
request_memory(b, size, granted) ==
    LET r == sbrk(b, size, granted)
    IN  [ptr |-> IF r.ptr = -1 THEN NULL ELSE r.ptr, brk |-> r.brk]

\* mutant of total_size: the header is not counted
total_size_no_header(size) == ToSizeT(size)

\* size_t total_size = size + sizeof(Block)
total_size(size) == (ToSizeT(size) + sizeofBlock) % SizeTModulus

\* mutant of IsNegative: off by one
IsNegativeOffByOne(size) == size < -1

\* if(size<0)
IsNegative(size) == size < 0

\* mutant of HeadAfterFirstBranch: the new block becomes the catalog head
HeadIsNewBlock(newblock) == newblock

\* free_list = NULL in the empty-catalog branch
HeadAfterFirstBranch(newblock) == NULL

\* mutant of NewBlockHeader: the new block is left marked free
NewBlockHeaderFree(newblock, size) ==
    [size |-> ToSizeT(size), next |-> NULL, is_free |-> 1]

\* mutant of NewBlockHeader: the new block's next is the block itself
NewBlockHeaderSelfNext(newblock, size) ==
    [size |-> ToSizeT(size), next |-> newblock, is_free |-> 0]

\* mutant of NewBlockHeader: the header's bytes are counted into the size
NewBlockHeaderTotalSize(newblock, size) ==
    [size |-> total_size(size), next |-> NULL, is_free |-> 0]

\* the metadata written into a block obtained from request_memory:
\* newblock->size = size; newblock->next = NULL; newblock->is_free = 0
NewBlockHeader(newblock, size) ==
    [size |-> ToSizeT(size), next |-> NULL, is_free |-> 0]

\* mutant of PayloadOf: the block itself is returned
PayloadOfNoOffset(block) == block

\* (void *)(block + 1): the address right after the header
PayloadOf(block) == block + sizeofBlock

----------------------------------------------------------------------------
(* my_malloc *)

\* the state and the return value a call ends with; requested is the number
\* of bytes asked of request_memory (0 when it was not called)
Result(m, fl, b, ret, outcome, nsbrk, examined, requested) ==
    [mem |-> m, free_list |-> fl, brk |-> b, ret |-> ret, outcome |-> outcome,
     sbrk_calls |-> nsbrk, examined |-> examined, requested |-> requested]

\* mutant of EmptyCatalogBranch: a failed request is tried a second time
EmptyCatalogBranchRetry(m, fl, b, size, granted) ==
    LET r == request_memory(b, total_size(size), granted)
        newblock == r.ptr
    IN  IF newblock = NULL
        THEN Result(m, fl, r.brk, NULL, "OutOfMemory", 2, 0, total_size(size))
        ELSE Result(Store(m, newblock, NewBlockHeader(newblock, size)),
                    HeadAfterFirstBranch(newblock), r.brk,
                    PayloadOf(newblock), "ok", 1, 0, total_size(size))

\* the branch taken when free_list == NULL
EmptyCatalogBranch(m, fl, b, size, granted) ==
    LET r == request_memory(b, total_size(size), granted)
        newblock == r.ptr
    IN  IF newblock = NULL
        THEN Result(m, fl, r.brk, NULL, "OutOfMemory", 1, 0, total_size(size))
        ELSE Result(Store(m, newblock, NewBlockHeader(newblock, size)),
                    HeadAfterFirstBranch(newblock), r.brk,
                    PayloadOf(newblock), "ok", 1, 0, total_size(size))

\* the while loop: walks from current, stops at the first block with
\* is_free == 1 and size > requested size; n counts the blocks examined
RECURSIVE Search(_, _, _, _, _)
Search(m, current, previous, size, n) ==
    IF current = NULL \/ n > Cardinality(DOMAIN m)
    THEN [hit |-> NULL, previous |-> previous, examined |-> n]
    ELSE IF m[current].is_free = 1 /\ m[current].size > ToSizeT(size)
         THEN [hit |-> current, previous |-> previous, examined |-> n + 1]
         ELSE Search(m, m[current].next, current, size, n + 1)

\* the body of the if inside the loop: mark allocated, split when too big
TakeBlock(m, current, size) ==
    LET m1 == [m EXCEPT ![current].is_free = 0]
    IN  IF m1[current].size > (ToSizeT(size) + sizeofBlock + 1) % SizeTModulus
        THEN LET new_block == current + sizeofBlock + size
                 m2 == Store(m1, new_block,
                             [size |-> (m1[current].size - sizeofBlock - ToSizeT(size))
                                          % SizeTModulus,
                              next |-> m1[current].next,
                              is_free |-> 1])
             IN  [m2 EXCEPT ![current].next = new_block,
                            ![current].size = ToSizeT(size)]
        ELSE m1

\* the search of the catalog and the extension of the heap after it
SearchBranch(m, fl, b, size, granted) ==
    LET s == Search(m, fl, NULL, size, 0)
    IN  IF s.hit # NULL
        THEN Result(TakeBlock(m, s.hit, size), fl, b,
                    PayloadOf(s.hit), "ok", 0, s.examined, 0)
        ELSE LET r == request_memory(b, total_size(size), granted)
                 newblock == r.ptr
             IN  IF newblock = NULL
                 THEN Result(m, fl, r.brk, NULL, "OutOfMemory", 1, s.examined,
                             total_size(size))
                 ELSE LET m1 == Store(m, newblock, NewBlockHeader(newblock, size))
                          m2 == IF s.previous # NULL
                                THEN [m1 EXCEPT ![s.previous].next = newblock]
                                ELSE m1
                      IN  Result(m2, fl, r.brk, PayloadOf(newblock), "ok",
                                 1, s.examined, total_size(size))

\* void *my_malloc(int size)
my_malloc(m, fl, b, size, granted) ==
    IF IsNegative(size)
    THEN Result(m, fl, b, NULL, "InvalidArgument", 0, 0, 0)
    ELSE IF fl = NULL
         THEN EmptyCatalogBranch(m, fl, b, size, granted)
         ELSE SearchBranch(m, fl, b, size, granted)

----------------------------------------------------------------------------
(* State machine *)

Init ==
    /\ mem = <<>>
    /\ free_list = NULL
    /\ brk = InitialBreak
    /\ calls = 0
    /\ last = [op |-> "none", size |-> 0, ret |-> NULL, outcome |-> "none",
               sbrk_calls |-> 0, examined |-> 0, requested |-> 0]
    /\ returned = <<>>
    /\ seen = {}

\* one call of my_malloc(size); granted is the operating system's answer to sbrk
MyMalloc ==
    \E size \in Sizes, granted \in BOOLEAN :
        /\ calls < MaxCalls
        /\ LET r == my_malloc(mem, free_list, brk, size, granted)
           IN  /\ mem' = r.mem
               /\ free_list' = r.free_list
               /\ brk' = r.brk
               /\ last' = [op |-> "malloc", size |-> size, ret |-> r.ret,
                           outcome |-> r.outcome, sbrk_calls |-> r.sbrk_calls,
                           examined |-> r.examined, requested |-> r.requested]
               /\ returned' = IF r.outcome = "ok"
                              THEN Append(returned, [p |-> r.ret, size |-> size])
                              ELSE returned
               /\ seen' = seen \cup {<<r.outcome, r.ret>>}
        /\ calls' = calls + 1

\* release(p) as the specification describes it: the owning block is the one
\* at p minus one header, and its is_free is set to true
Release ==
    \E p \in {b + sizeofBlock : b \in DOMAIN mem} :
        /\ calls < MaxCalls
        /\ mem[p - sizeofBlock].is_free = 0
        /\ mem' = [mem EXCEPT ![p - sizeofBlock].is_free = 1]
        /\ last' = [op |-> "release", size |-> 0, ret |-> p, outcome |-> "released",
                    sbrk_calls |-> 0, examined |-> 0, requested |-> 0]
        /\ calls' = calls + 1
        /\ UNCHANGED <<free_list, brk, returned, seen>>

Next == MyMalloc

Spec == Init /\ [][Next]_vars

NextR == MyMalloc \/ Release

SpecR == Init /\ [][NextR]_vars

----------------------------------------------------------------------------
(* Definitions used by the properties *)

IsMallocStep(n) == calls' = calls + 1 /\ last'.op = "malloc" /\ last'.size = n

\* the byte range of a handed-out region, header included: [lo, hi)
RegionLo(r) == r.p - sizeofBlock

RegionHi(r) == r.p + r.size

\* the blocks reachable from head by next links, in catalog order
RECURSIVE Chain(_, _, _)
Chain(m, head, fuel) ==
    IF head = NULL \/ fuel = 0 \/ head \notin DOMAIN m
    THEN <<>>
    ELSE <<head>> \o Chain(m, m[head].next, fuel - 1)

Catalog == Chain(mem, free_list, Cardinality(DOMAIN mem))

CatalogBlocks == {Catalog[i] : i \in 1..Len(Catalog)}

\* the blocks of the heap a first-fit search for n bytes accepts
Qualifying(m, n) == {b \in DOMAIN m : m[b].is_free = 1 /\ m[b].size > n}

\* the first of them in the order the blocks were created (address order)
FirstQualifying(m, n) ==
    CHOOSE b \in Qualifying(m, n) : \A c \in Qualifying(m, n) : b <= c

----------------------------------------------------------------------------
(* Properties *)

\* C1: for size >= 0, my_malloc(size) either fails with OutOfMemory or returns
\* p with [p, p+size) inside the memory obtained from sbrk so far and inside
\* the payload of one block whose size is at least size.
C1_AllocInsideHeap ==
    (last.op = "malloc" /\ last.size >= 0) =>
        \/ last.outcome = "OutOfMemory" /\ last.ret = NULL
        \/ /\ last.outcome = "ok"
           /\ InitialBreak <= last.ret
           /\ last.ret + last.size <= brk
           /\ \E b \in DOMAIN mem :
                  /\ b + sizeofBlock <= last.ret
                  /\ last.ret + last.size <= b + sizeofBlock + mem[b].size
                  /\ mem[b].size >= last.size

C1_Witness ==
    /\ last.op = "malloc" /\ last.outcome = "ok" /\ last.size = 64
    /\ Len(returned) >= 2
    /\ <<"OutOfMemory", NULL>> \in seen

\* C2: for size < 0, my_malloc(size) fails with InvalidArgument without
\* calling sbrk and without changing the catalog head or any block header.
C2_NegativeSizeRejected ==
    [][\A n \in Sizes :
          (n < 0 /\ IsMallocStep(n)) =>
              /\ last'.outcome = "InvalidArgument"
              /\ last'.ret = NULL
              /\ last'.sbrk_calls = 0
              /\ brk' = brk
              /\ free_list' = free_list
              /\ mem' = mem]_vars

C2_Witness ==
    /\ last.op = "malloc" /\ last.size < 0 /\ last.outcome = "InvalidArgument"
    /\ Len(returned) >= 1

\* C3: the return value tells the three outcomes of my_malloc apart: success,
\* InvalidArgument and OutOfMemory never produce the same return value.
C3_OutcomesDistinguishable ==
    \A a \in seen, b \in seen : a[1] # b[1] => a[2] # b[2]

\* C4: with no release in between, the regions handed out by successful calls,
\* headers included, are pairwise disjoint.
C4_RegionsDisjoint ==
    \A i \in 1..Len(returned), j \in 1..Len(returned) :
        i < j => \/ RegionHi(returned[i]) <= RegionLo(returned[j])
                 \/ RegionHi(returned[j]) <= RegionLo(returned[i])

C4_Witness ==
    /\ Len(returned) >= 3
    /\ \E i \in 1..Len(returned) : returned[i].size = 0
    /\ \E i \in 1..Len(returned) : returned[i].size = 64

\* C5: every block whose payload pointer was ever returned is reachable from
\* the catalog head by following next links.
C5_ReturnedBlocksInCatalog ==
    \A i \in 1..Len(returned) : RegionLo(returned[i]) \in CatalogBlocks

\* C6: when a released block with payload size m > n >= 0 exists, the next
\* my_malloc(n) returns a pointer inside a released block's region and does not
\* call sbrk (the program break is unchanged by the call).
C6_ReuseAfterRelease ==
    [][\A n \in Sizes :
          (n >= 0 /\ IsMallocStep(n) /\ Qualifying(mem, n) # {}) =>
              /\ \E b \in Qualifying(mem, n) :
                     /\ b + sizeofBlock <= last'.ret
                     /\ last'.ret + n <= b + sizeofBlock + mem[b].size
              /\ last'.sbrk_calls = 0
              /\ brk' = brk]_vars

\* C7: when my_malloc(n) is called and the first free block B with payload size
\* s > n has s > n + sizeof(Block) + 1, then after the call B is allocated with
\* size n, a free block R of size s - sizeof(Block) - n exists at B's payload
\* start + n, R.next is B's old next and B.next is R.
C7_SplitOnReuse ==
    [][\A n \in Sizes :
          (/\ n >= 0 /\ IsMallocStep(n) /\ Qualifying(mem, n) # {}
           /\ mem[FirstQualifying(mem, n)].size > n + sizeofBlock + 1) =>
              LET B == FirstQualifying(mem, n)
                  R == B + sizeofBlock + n
              IN  /\ mem'[B].is_free = 0
                  /\ mem'[B].size = n
                  /\ mem'[B].next = R
                  /\ R \in DOMAIN mem'
                  /\ mem'[R] = [size |-> mem[B].size - sizeofBlock - n,
                                next |-> mem[B].next, is_free |-> 1]]_vars

\* C8: when my_malloc(n) is called and the first free block B with payload size
\* s > n has s <= n + sizeof(Block) + 1, the call creates no block: the heap
\* holds the same headers afterwards, and only B.is_free changes, to false.
C8_NoSplitBelowThreshold ==
    [][\A n \in Sizes :
          (/\ n >= 0 /\ IsMallocStep(n) /\ Qualifying(mem, n) # {}
           /\ mem[FirstQualifying(mem, n)].size <= n + sizeofBlock + 1) =>
              /\ mem' = [mem EXCEPT ![FirstQualifying(mem, n)].is_free = 0]
              /\ free_list' = free_list]_vars

\* C9: free_list is NULL in every reachable state, the search loop never
\* examines a block, and every successful my_malloc is served by one fresh
\* extension of the heap: its block is the newest, at the top of the heap.
C9_CatalogHeadAlwaysEmpty ==
    /\ free_list = NULL
    /\ last.examined = 0
    /\ (last.op = "malloc" /\ last.outcome = "ok") =>
          /\ last.sbrk_calls = 1
          /\ last.ret + last.size = brk
          /\ \A b \in DOMAIN mem : b <= last.ret - sizeofBlock

C9_Witness ==
    /\ last.op = "malloc" /\ last.outcome = "ok"
    /\ Len(returned) >= 3

\* C10: when my_malloc(n) is called and a free block with payload size
\* strictly greater than n exists, the call is served from the catalog and
\* returns the first such block in catalog order.
C10_FirstFit ==
    [][\A n \in Sizes :
          (n >= 0 /\ IsMallocStep(n) /\ Qualifying(mem, n) # {}) =>
              last'.ret = FirstQualifying(mem, n) + sizeofBlock]_vars

\* C11: when sbrk fails during my_malloc(n), n >= 0, the call returns the
\* OutOfMemory failure and leaves the catalog head and every header as they
\* were.  (A request is for at least sizeof(Block) bytes, so a request that
\* leaves the break where it was is a request that failed.)
C11_FailedExtensionLeavesCatalog ==
    [][\A n \in Sizes :
          (n >= 0 /\ IsMallocStep(n) /\ last'.sbrk_calls >= 1 /\ brk' = brk) =>
              /\ last'.outcome = "OutOfMemory"
              /\ last'.ret = NULL
              /\ mem' = mem
              /\ free_list' = free_list]_vars

C11_Witness ==
    /\ last.op = "malloc" /\ last.outcome = "OutOfMemory" /\ last.size = 10
    /\ Len(returned) >= 2

\* C12: with an empty catalog, my_malloc(n), n >= 0, examines no block, calls
\* request_memory exactly once for exactly n + sizeof(Block) bytes, and on
\* success returns the payload of a new block at the old break with size n,
\* is_free = 0 and next = NULL.
C12_EmptyCatalogExtendsDirectly ==
    [][\A n \in Sizes :
          (n >= 0 /\ IsMallocStep(n) /\ free_list = NULL) =>
              /\ last'.examined = 0
              /\ last'.sbrk_calls = 1
              /\ last'.requested = n + sizeofBlock
              /\ last'.outcome \in {"ok", "OutOfMemory"}
              /\ last'.outcome = "ok" =>
                    /\ brk \notin DOMAIN mem
                    /\ last'.ret = brk + sizeofBlock
                    /\ brk' = brk + n + sizeofBlock
                    /\ mem' = Store(mem, brk,
                                    [size |-> n, next |-> NULL, is_free |-> 0])]_vars

C12_Witness ==
    /\ last.op = "malloc" /\ last.outcome = "ok" /\ last.size = 32
    /\ last.requested = 32 + sizeofBlock
    /\ Len(returned) >= 2

\* C13: every pointer p returned by a successful my_malloc is the address right
\* after a block header: p - sizeof(Block) is the header of exactly one block,
\* which has is_free = 0 when the call returns and whose payload starts at p.
C13_PayloadFollowsHeader ==
    (last.op = "malloc" /\ last.outcome = "ok") =>
        /\ last.ret - sizeofBlock \in DOMAIN mem
        /\ mem[last.ret - sizeofBlock].is_free = 0
        /\ mem[last.ret - sizeofBlock].size >= last.size
        /\ Cardinality({b \in DOMAIN mem : b + sizeofBlock = last.ret}) = 1

C13_Witness ==
    /\ last.op = "malloc" /\ last.outcome = "ok" /\ last.size = 0
    /\ Len(returned) >= 2

\* following next from head ends at NULL within fuel steps, through headers only
RECURSIVE WalkEnds(_, _, _)
WalkEnds(m, head, fuel) ==
    IF head = NULL THEN TRUE
    ELSE IF fuel = 0 \/ head \notin DOMAIN m THEN FALSE
    ELSE WalkEnds(m, m[head].next, fuel - 1)

\* C14: in every reachable state following next from the catalog head, and
\* from any block header of the heap, visits each block at most once and ends
\* at NULL.
C14_CatalogAcyclic ==
    /\ WalkEnds(mem, free_list, Cardinality(DOMAIN mem))
    /\ \A b \in DOMAIN mem : WalkEnds(mem, b, Cardinality(DOMAIN mem))

C14_Witness ==
    /\ Cardinality(DOMAIN mem) >= 3
    /\ last.op = "malloc" /\ last.outcome = "ok"

\* C15: my_malloc never disturbs a block that is already allocated: its
\* header stays where it is with the same size and is_free = 0, and no new
\* header is written inside its header or payload.
C15_AllocatedBlocksUndisturbed ==
    [][\A n \in Sizes :
          IsMallocStep(n) =>
              \A b \in DOMAIN mem :
                  mem[b].is_free = 0 =>
                      /\ b \in DOMAIN mem'
                      /\ mem'[b].size = mem[b].size
                      /\ mem'[b].is_free = 0
                      /\ \A c \in (DOMAIN mem') \ (DOMAIN mem) :
                             \/ c + sizeofBlock <= b
                             \/ b + sizeofBlock + mem[b].size <= c]_vars

C15_Witness ==
    /\ last.op = "malloc" /\ last.outcome = "ok" /\ last.size = 10
    /\ \E i \in 1..Len(returned) : returned[i].size = 64 /\ returned[i].p < last.ret

\* C16: the program break never decreases: a call that makes no request and a
\* call that fails leave it unchanged, and a successful extension for
\* my_malloc(n) raises it by exactly n + sizeof(Block).
C16_BreakMonotonic ==
    [][/\ brk' >= brk
       /\ \A n \in Sizes :
             IsMallocStep(n) =>
                 /\ last'.sbrk_calls = 0 => brk' = brk
                 /\ last'.outcome # "ok" => brk' = brk
                 /\ (last'.outcome = "ok" /\ last'.sbrk_calls = 1) =>
                        brk' = brk + n + sizeofBlock]_vars

C16_Witness ==
    /\ last.op = "malloc" /\ last.outcome = "ok" /\ last.size = 64
    /\ brk > InitialBreak + 64 + sizeofBlock
    /\ <<"OutOfMemory", NULL>> \in seen
    /\ <<"InvalidArgument", NULL>> \in seen

\* C17: every call of my_malloc ends, with a pointer or a failure, from every
\* reachable state: the call can always be taken to its end, its walk examined
\* no more blocks than the heap holds, and it made at most one request.
C17_CallTerminates ==
    /\ calls < MaxCalls => ENABLED MyMalloc
    /\ last.op = "malloc" =>
          /\ last.outcome \in {"ok", "OutOfMemory", "InvalidArgument"}
          /\ last.examined <= Cardinality(DOMAIN mem)
          /\ last.sbrk_calls <= 1

C17_Witness ==
    /\ last.op = "malloc" /\ last.outcome = "OutOfMemory"
    /\ \E i \in 1..Len(returned) : returned[i].size = 32

\* the bytes taken by the blocks in S: header plus payload of each
RECURSIVE SumBlocks(_, _)
SumBlocks(m, S) ==
    IF S = {} THEN 0
    ELSE LET b == CHOOSE x \in S : TRUE
         IN  sizeofBlock + m[b].size + SumBlocks(m, S \ {b})

\* C18: in every reachable state the blocks created so far exactly tile the
\* memory obtained from sbrk: the sum over all blocks of sizeof(Block) + size
\* equals the number of bytes granted by successful extensions.
C18_ByteConservation ==
    SumBlocks(mem, DOMAIN mem) = brk - InitialBreak

C18_Witness ==
    /\ Cardinality(DOMAIN mem) >= 3
    /\ \E b \in DOMAIN mem : mem[b].size = 0
    /\ \E b \in DOMAIN mem : mem[b].size = 32

====
